---- MODULE Spec2Model ----
(***************************************************************************)
(* CORS filter middleware (package cors, src/cors.go).                     *)
(*                                                                         *)
(* Go strings and byte slices are sequences of one-character strings, so   *)
(* that splitting, trimming, case folding and pattern matching are         *)
(* computed byte by byte as the code computes them.  A runtime fault (a Go *)
(* panic) is the result Fault.                                             *)
(***************************************************************************)
EXTENDS Integers, Sequences, FiniteSets, TLC

VARIABLES
    config,      \* the Config handed to Filter(config)
    c,           \* the *cors built by initialize(config)
    pc,          \* "init" before Filter(config) has run, "failed" if it ended in a
                 \* fault, "idle" between requests, and where the filter closure
                 \* ended for the request just handled: "done" or "fault"
    req,         \* the request just handled
    hdr0,        \* w.Header() as the filter found it
    hdr,         \* w.Header() as the filter left it: name -> sequence of values
    status,      \* code the filter gave to w.WriteHeader, 0 if it gave none
    nextCalls,   \* number of next.ServeHTTP(w, r) calls the filter made
    log,         \* what the filter did for this request, in order
    call,        \* a direct call of one of the package's functions: its name,
                 \* its argument and what it returned
    handlers     \* the requests in flight when the server runs the filter in
                 \* several goroutines: handler -> its request and progress

vars == <<config, c, pc, req, hdr0, hdr, status, nextCalls, log, call, handlers>>

-----------------------------------------------------------------------------
(* Bytes and strings *)

\* the result of a call that may end in a runtime fault (a Go panic)
Ok(v) == [fault |-> FALSE, val |-> v]
Fault == [fault |-> TRUE, val |-> <<>>]

UpperLetters ==
    <<"A","B","C","D","E","F","G","H","I","J","K","L","M",
      "N","O","P","Q","R","S","T","U","V","W","X","Y","Z">>

LowerLetters ==
    <<"a","b","c","d","e","f","g","h","i","j","k","l","m",
      "n","o","p","q","r","s","t","u","v","w","x","y","z">>

IndexIn(letters, ch) ==
    IF \E i \in 1..Len(letters) : letters[i] = ch
    THEN CHOOSE i \in 1..Len(letters) : letters[i] = ch
    ELSE 0

\* c ^ 0x20 applied when 'A' <= c && c <= 'Z'
lowerByte(ch) ==
    LET i == IndexIn(UpperLetters, ch) IN IF i = 0 THEN ch ELSE LowerLetters[i]

upperByte(ch) ==
    LET i == IndexIn(LowerLetters, ch) IN IF i = 0 THEN ch ELSE UpperLetters[i]

toLowerCase(s) == [i \in 1..Len(s) |-> lowerByte(s[i])]

\* bytes.ToUpper
ToUpper(s) == [i \in 1..Len(s) |-> upperByte(s[i])]

\* s[lo:hi] with Go's 0-based half-open bounds; lo > hi is a runtime fault
Slice(s, lo, hi) ==
    IF lo > hi \/ lo < 0 \/ hi > Len(s) THEN Fault ELSE Ok(SubSeq(s, lo + 1, hi))

HasPrefix(s, p) == Len(s) >= Len(p) /\ SubSeq(s, 1, Len(p)) = p

HasSuffix(s, p) == Len(s) >= Len(p) /\ SubSeq(s, Len(s) - Len(p) + 1, Len(s)) = p

Count(s, ch) == Cardinality({i \in 1..Len(s) : s[i] = ch})

\* strings.Split(s, ",") / bytes.Split(s, ","): every field, empty ones included
RECURSIVE SplitFrom(_, _, _)
SplitFrom(s, i, start) ==
    IF i > Len(s) THEN <<SubSeq(s, start, Len(s))>>
    ELSE IF s[i] = "," THEN <<SubSeq(s, start, i - 1)>> \o SplitFrom(s, i + 1, i + 1)
    ELSE SplitFrom(s, i + 1, start)

Split(s) == SplitFrom(s, 1, 1)

\* strings.TrimSpace: white space of the model's alphabet is " " and "\t"
IsSpace(ch) == ch = " " \/ ch = "\t"

RECURSIVE TrimLeft(_)
TrimLeft(s) == IF s # <<>> /\ IsSpace(s[1]) THEN TrimLeft(Tail(s)) ELSE s

RECURSIVE TrimRight(_)
TrimRight(s) ==
    IF s # <<>> /\ IsSpace(s[Len(s)]) THEN TrimRight(SubSeq(s, 1, Len(s) - 1)) ELSE s

TrimSpace(s) == TrimRight(TrimLeft(s))

\* strconv.Itoa for n >= 0
Digits == <<"0","1","2","3","4","5","6","7","8","9">>

\* the last decimal digit alone
ItoaUnits(n) == <<Digits[(n % 10) + 1]>>

RECURSIVE Itoa(_)
Itoa(n) == IF n < 10 THEN <<Digits[n + 1]>> ELSE Itoa(n \div 10) \o <<Digits[(n % 10) + 1]>>

-----------------------------------------------------------------------------
(* Header normalization utilities *)

\* start after "for ; start < len(s) && s[start] == ' '; start++"
RECURSIVE trimStart(_, _)
trimStart(s, start) ==
    IF start < Len(s) /\ s[start + 1] = " " THEN trimStart(s, start + 1) ELSE start

\* end after "for ; end > 0 && s[end] == ' '; end--"
RECURSIVE trimEnd(_, _)
trimEnd(s, end) ==
    IF end > 0 /\ s[end + 1] = " " THEN trimEnd(s, end - 1) ELSE end

trimSpace(s) == Slice(s, trimStart(s, 0), trimEnd(s, Len(s) - 1) + 1)

\* append(ss, trimSpace(x)); a fault in trimSpace ends the whole call
appendTrimmed(ss, x) ==
    IF ss.fault \/ trimSpace(x).fault THEN Fault ELSE Ok(Append(ss.val, trimSpace(x).val))

\* the 0-based index of the first separator at or after i, len(s) if none
nextSep(s, i) ==
    IF \E j \in i..(Len(s) - 1) : s[j + 1] = ","
    THEN CHOOSE j \in i..(Len(s) - 1) :
            s[j + 1] = "," /\ \A k \in i..(j - 1) : s[k + 1] # ","
    ELSE Len(s)

\* the "for i, c := range s" loop of normalizeHeaders, taken from one separator
\* to the next (i is 0-based): between separators the loop only lowercases
\* s[i] in place, so the bytes s[start:i] are lowercase when they are sliced
RECURSIVE normalizeLoop(_, _, _, _)
normalizeLoop(s, i, start, ss) ==
    LET j == nextSep(s, i) IN
    IF ss.fault \/ j >= Len(s) THEN [ss |-> ss, start |-> start]
    ELSE IF start = j THEN normalizeLoop(s, j + 1, start + 1, ss)
    ELSE normalizeLoop(s, j + 1, j + 1,
                       appendTrimmed(ss, toLowerCase(SubSeq(s, start + 1, j))))

normalizeHeaders(headers) ==
    LET s == headers
        l == normalizeLoop(s, 0, 0, Ok(<<>>))
        tail == toLowerCase(SubSeq(s, l.start + 1, Len(s)))
        ss1 == IF ~l.ss.fault /\ l.start < Len(s) THEN appendTrimmed(l.ss, tail) ELSE l.ss
    IN  IF ~ss1.fault /\ Len(ss1.val) = 0 THEN appendTrimmed(ss1, tail) ELSE ss1

\* allowed: the key set of the map it builds
allowed(list) == {list[i] : i \in 1..Len(list)}

-----------------------------------------------------------------------------
(* Origin patterns: regexp.QuoteMeta, strings.Replace, regexp.MustCompile and *)
(* Regexp.MatchString, for the patterns initialize builds                     *)

RegexMeta == {"\\", ".", "+", "*", "?", "(", ")", "|", "[", "]", "{", "}", "^", "$"}

\* regexp.QuoteMeta: a backslash before every metacharacter
RECURSIVE QuoteMeta(_)
QuoteMeta(s) ==
    IF s = <<>> THEN <<>>
    ELSE (IF s[1] \in RegexMeta THEN <<"\\", s[1]>> ELSE <<s[1]>>) \o QuoteMeta(Tail(s))

\* strings.Replace(s, old, new, -1): non-overlapping occurrences, left to right
RECURSIVE Replace(_, _, _)
Replace(s, old, new) ==
    IF Len(s) < Len(old) THEN s
    ELSE IF HasPrefix(s, old) THEN new \o Replace(SubSeq(s, Len(old) + 1, Len(s)), old, new)
    ELSE <<s[1]>> \o Replace(Tail(s), old, new)

\* regexp.MustCompile on such a pattern: a sequence of atoms, each an escaped or
\* plain literal byte or "." (any byte but newline), optionally starred
RECURSIVE Compile(_)
Compile(p) ==
    IF p = <<>> THEN <<>>
    ELSE LET esc == p[1] = "\\" /\ Len(p) >= 2
             n == IF esc THEN 2 ELSE 1
             atom == [any |-> ~esc /\ p[1] = ".", ch |-> p[n]]
             star == Len(p) > n /\ p[n + 1] = "*"
             used == IF star THEN n + 1 ELSE n
         IN  <<[any |-> atom.any, ch |-> atom.ch, star |-> star]>>
             \o Compile(SubSeq(p, used + 1, Len(p)))

AtomMatches(a, ch) == IF a.any THEN ch # "\n" ELSE a.ch = ch

\* does some prefix of s match the whole of re
RECURSIVE MatchPrefix(_, _)
MatchPrefix(re, s) ==
    IF re = <<>> THEN TRUE
    ELSE IF re[1].star
         THEN \E k \in 0..Len(s) :
                 /\ \A j \in 1..k : AtomMatches(re[1], s[j])
                 /\ MatchPrefix(Tail(re), SubSeq(s, k + 1, Len(s)))
    ELSE /\ s # <<>>
         /\ AtomMatches(re[1], s[1])
         /\ MatchPrefix(Tail(re), Tail(s))

\* Regexp.MatchString: the pattern carries no ^ or $, so a match may start
\* and end anywhere in s
MatchString(re, s) == \E i \in 1..(Len(s) + 1) : MatchPrefix(re, SubSeq(s, i, Len(s)))

-----------------------------------------------------------------------------
(* Configuration compiler *)

DefaultAllowedMethods == <<"G","E","T",",","P","O","S","T",",","H","E","A","D",",","O","P","T","I","O","N","S">>

DefaultAllowedHeaders ==
    <<"O","r","i","g","i","n",",","A","c","c","e","p","t",",","C","o","n","t","e","n","t","-","T","y","p","e",",","A","c","c","e","p","t","-","L","a","n","g","u","a","g","e",",">> \o
    <<"C","o","n","t","e","n","t","-","L","a","n","g","u","a","g","e",",","L","a","s","t","-","E","v","e","n","t","-","I","D">>

MethodOptions == <<"O","P","T","I","O","N","S">>

Star == <<"*">>

\* the regexp initialize compiles for an origin entry o
originRegexp(o) ==
    Compile(Replace(Replace(QuoteMeta(TrimSpace(o)), <<"\\", "*">>, <<".", "*">>),
                    <<"\\", "?">>, <<".">>))

\* the "for _, o := range origins" loop: the three buckets after the entries
\* origins[i..] have been classified
RECURSIVE classifyOrigins(_, _, _)
classifyOrigins(origins, i, b) ==
    IF i > Len(origins) THEN b
    ELSE LET o == origins[i] IN
         classifyOrigins(origins, i + 1,
            IF Count(o, "*") = 0
            THEN [b EXCEPT !.static = Append(@, o)]
            ELSE IF HasPrefix(o, <<"*", ".">>)
            THEN [b EXCEPT !.suffix = Append(@, SubSeq(o, 3, Len(o)))]
            ELSE IF Count(o, "*") > 0 \/ Count(o, "?") > 0
            THEN [b EXCEPT !.regex = Append(@, originRegexp(o))]
            ELSE b)

\* AllowCredentials taken as configured, allow-all origins or not
credentialsKept(cfg, allowAllOrigins) == cfg.AllowCredentials

\* c.allowCredentials: AllowCredentials is ignored when every origin is allowed
credentials(cfg, allowAllOrigins) ==
    IF cfg.AllowCredentials /\ allowAllOrigins THEN FALSE ELSE cfg.AllowCredentials

\* initialize(config): the *cors, or a fault
initialize(cfg) ==
    LET listed == Len(cfg.AllowedOrigins) > 0 /\ cfg.AllowedOrigins # Star
        b == IF listed
             THEN classifyOrigins(Split(cfg.AllowedOrigins), 1,
                                  [static |-> <<>>, suffix |-> <<>>, regex |-> <<>>])
             ELSE [static |-> <<>>, suffix |-> <<>>, regex |-> <<>>]
        allowAllOrigins == ~listed
        methodsSet == Len(cfg.AllowedMethods) > 0
        headersSet == Len(cfg.AllowedHeaders) > 0
        allowAllHeaders == headersSet /\ cfg.AllowedHeaders = TrimSpace(Star)
        headers == IF headersSet /\ ~allowAllHeaders
                   THEN normalizeHeaders(cfg.AllowedHeaders)
                   ELSE normalizeHeaders(DefaultAllowedHeaders)
    IN  IF headers.fault THEN Fault
        ELSE Ok([
            allowedRegexOrigins  |-> b.regex,
            allowedStaticOrigins |-> b.static,
            allowedSuffixOrigins |-> b.suffix,
            allowedMethods       |-> IF methodsSet
                                     THEN allowed(Split(ToUpper(cfg.AllowedMethods)))
                                     ELSE allowed(Split(DefaultAllowedMethods)),
            allowedHeaders       |-> allowed(headers.val),
            allowedHeadersString |-> IF ~headersSet THEN DefaultAllowedHeaders
                                     ELSE IF allowAllHeaders THEN Star
                                     ELSE cfg.AllowedHeaders,
            allowedMethodsString |-> IF methodsSet THEN cfg.AllowedMethods
                                     ELSE DefaultAllowedMethods,
            maxAge               |-> IF cfg.MaxAge > 0 THEN Itoa(cfg.MaxAge)
                                     ELSE <<"1", "8", "0", "0">>,
            exposedHeaders       |-> cfg.ExposedHeaders,
            exposeHeader         |-> Len(cfg.ExposedHeaders) > 0,
            allowAllOrigins      |-> allowAllOrigins,
            allowAllHeaders      |-> allowAllHeaders,
            allowCredentials     |-> credentials(cfg, allowAllOrigins),
            forwardRequest       |-> cfg.ForwardRequest])

-----------------------------------------------------------------------------
(* Runtime matcher *)

isOriginAllowed(p, origin) ==
    \/ p.allowAllOrigins
    \/ \E i \in 1..Len(p.allowedStaticOrigins) : p.allowedStaticOrigins[i] = origin
    \/ \E i \in 1..Len(p.allowedSuffixOrigins) :
          /\ Len(origin) >= Len(p.allowedSuffixOrigins[i])
          /\ HasSuffix(origin, p.allowedSuffixOrigins[i])
    \/ \E i \in 1..Len(p.allowedRegexOrigins) : MatchString(p.allowedRegexOrigins[i], origin)

\* OPTIONS let through whatever the allow-set holds
isMethodAllowedOrOptions(p, method) ==
    method \in p.allowedMethods \/ method = MethodOptions

isMethodAllowed(p, method) == method \in p.allowedMethods

\* areReqHeadersAllowed: Ok(TRUE), Ok(FALSE), or the fault of normalizeHeaders
areReqHeadersAllowed(p, reqHeaders) ==
    IF p.allowAllHeaders \/ Len(reqHeaders) = 0 THEN Ok(TRUE)
    ELSE LET hs == normalizeHeaders(reqHeaders) IN
         IF hs.fault THEN Fault
         ELSE Ok(\A i \in 1..Len(hs.val) : hs.val[i] \in p.allowedHeaders)

-----------------------------------------------------------------------------
(* Header names and fixed header values *)

OriginHeader == "Origin"
VaryHeader == "Vary"
AccessControlAllowOrigin == "Access-Control-Allow-Origin"
AccessControlExposeHeaders == "Access-Control-Expose-Headers"
AccessControlControlMaxAge == "Access-Control-Max-Age"
AccessControlAllowMethods == "Access-Control-Allow-Methods"
AccessControlAllowHeaders == "Access-Control-Allow-Headers"
AccessControlAllowCredentials == "Access-Control-Allow-Credentials"
AccessControlRequestMethod == "Access-Control-Request-Method"
AccessControlRequestHeaders == "Access-Control-Request-Headers"

\* AccessControlRequestMethod + ", " + AccessControlRequestHeaders
VaryPreflight == "Access-Control-Request-Method, Access-Control-Request-Headers"

StatusOK == 200
StatusForbidden == 403
StatusMethodNotAllowed == 405

RequestHeaderNames == {OriginHeader, AccessControlRequestMethod, AccessControlRequestHeaders}

ResponseHeaderNames ==
    {VaryHeader, AccessControlAllowOrigin, AccessControlExposeHeaders,
     AccessControlControlMaxAge, AccessControlAllowMethods, AccessControlAllowHeaders,
     AccessControlAllowCredentials}

\* http.Header.Get: the first value of the header, "" when it has none
Get(h, name) == IF Len(h[name]) = 0 THEN <<>> ELSE h[name][1]

\* http.Header.Add: append the value to the header's values
Add(h, name, value) == [h EXCEPT ![name] = Append(@, value)]

-----------------------------------------------------------------------------
(* Inputs *)

MaxAgeSteps == 1

NumHandlers == 2

MaxLen == 4

ConfigOrigins ==
    { <<>>,
      Star,
      <<"h","t","t","p",":","/","/","f","o","o","b","a","r",".","c","o","m">>,
      <<"*",".","e","x","a","m","p","l","e",".","c","o","m">>,
      <<"h","t","t","p",":","/","/","f","o","o",".","*",".","c","o","m">> }

ConfigMethods ==
    { <<>>,
      <<"P","U","T",",","D","E","L","E","T","E",",","O","P","T","I","O","N","S">>,
      <<"P","U","T",",","D","E","L","E","T","E">> }

ConfigHeaders ==
    { <<>>,
      Star,
      <<"X","-","A",",","X","-","b">>,
      <<"X","-","A",","," "," ">> }

ConfigExposed == { <<>>, <<"X","-","A">> }

Configs ==
    [ AllowedOrigins   : ConfigOrigins,
      AllowedMethods   : ConfigMethods,
      AllowedHeaders   : ConfigHeaders,
      ExposedHeaders   : ConfigExposed,
      MaxAge           : {10 * k : k \in 0..MaxAgeSteps},
      AllowCredentials : BOOLEAN,
      ForwardRequest   : BOOLEAN ]

\* origin lists with "*" as one entry among others, with "?", with spaces
\* around the separator, and a wildcard pattern
EdgeOrigins ==
    { <<"h","t","t","p",":","/","/","a",".","c","o","m",",","*">>,
      <<"h","t","t","p",":","/","/","f","o","?",".","c","o","m">>,
      <<"h","t","t","p",":","/","/","a",".","c","o","m",","," ","h","t","t","p",":","/","/","b",".","c","o","m">>,
      <<"h","t","t","p",":","/","/","a",".","c","o","m"," ",",","*",".","b",".","c","o","m">>,
      <<"h","t","t","p",":","/","/","f","o","o",".","*",".","c","o","m">> }

\* configurations whose lists have a trailing separator (strings.Split and
\* bytes.Split return a last, empty element for them) or spaces and lowercase
\* letters in their elements
EdgeMethods ==
    { <<"P","U","T",",","O","P","T","I","O","N","S",",">>,
      <<"g","e","t",","," ","p","u","t",",","O","P","T","I","O","N","S">> }

EdgeConfigs ==
    [ AllowedOrigins   : { <<>>, <<"h","t","t","p",":","/","/","f","o","o","b","a","r",".","c","o","m">> },
      AllowedMethods   : EdgeMethods,
      AllowedHeaders   : { <<>>, Star },
      ExposedHeaders   : { <<>> },
      MaxAge           : { 0 },
      AllowCredentials : BOOLEAN,
      ForwardRequest   : BOOLEAN ]
    \cup
    [ AllowedOrigins   : EdgeOrigins,
      AllowedMethods   : { <<"G","E","T",",","O","P","T","I","O","N","S">> },
      AllowedHeaders   : { <<>> },
      ExposedHeaders   : { <<>> },
      MaxAge           : { 0 },
      AllowCredentials : BOOLEAN,
      ForwardRequest   : { FALSE } ]

MethodGet == <<"G","E","T">>

MethodDelete == <<"D","E","L","E","T","E">>

\* the values of a request header: none (absent) or one
RequestOrigins ==
    { <<>>,
      << <<>> >>,
      <<<<"h","t","t","p",":","/","/","f","o","o","b","a","r",".","c","o","m">>>>,
      <<<<"h","t","t","p",":","/","/","f","o","o",".","e","x","a","m","p","l","e",".","c","o","m">>>>,
      <<<<"h","t","t","p",":","/","/","f","o","o","e","x","a","m","p","l","e",".","c","o","m">>>>,
      <<<<"h","t","t","p",":","/","/","f","o","o",".","b","a","r",".","c","o","m">>>> }

RequestACRM ==
    { <<>>, <<<<"G","E","T">>>>, <<<<"P","U","T">>>>, <<<<"p","u","t">>>> }

RequestACRH ==
    { <<>>,
      <<<<"X","-","B",","," ","X","-","A">>>>,
      <<<<"o","r","i","g","i","n">>>>,
      <<<<"X","-","A",","," "," ">>>> }

\* values the response's Vary header may hold before the filter runs
PreVary == { <<>>, <<"Accept-Encoding">> }

Request(m, o, rm, rh) ==
    [Method |-> m,
     Header |-> (OriginHeader :> o) @@ (AccessControlRequestMethod :> rm)
                @@ (AccessControlRequestHeaders :> rh)]

\* preflights with every combination of the three headers the filter reads
Preflights ==
    { Request(MethodOptions, o, rm, rh) :
      o \in RequestOrigins, rm \in RequestACRM, rh \in RequestACRH }

\* actual requests: without the Access-Control-Request-* headers, as browsers
\* send them, and with both of them set
ActualRequests ==
    { Request(MethodGet, o, x[1], x[2]) :
      o \in RequestOrigins,
      x \in { <<<<>>, <<>>>>,
              <<<<<<"P","U","T">>>>, <<<<"X","-","B",","," ","X","-","A">>>>>> } }
    \cup { Request(MethodDelete, o, <<>>, <<>>) : o \in RequestOrigins }

Requests == Preflights \cup ActualRequests

MethodPut == <<"P","U","T">>

\* the origins sent to the configurations of EdgeConfigs
EdgeRequestOrigins ==
    { <<"h","t","t","p",":","/","/","f","o","o","b","a","r",".","c","o","m">>,
      <<"h","t","t","p",":","/","/","a",".","c","o","m">>,
      <<"h","t","t","p",":","/","/","b",".","c","o","m">>,
      <<"h","t","t","p",":","/","/","f","o","o",".","c","o","m">>,
      <<"h","t","t","p",":","/","/","e","v","i","l",".","o","r","g">>,
      <<"h","t","t","p",":","/","/","f","o","o",".","b","a","r",".","c","o","m">>,
      <<"h","t","t","p",":","/","/","f","o","o",".","b","a","r",".","c","o","m",".","e","v","i","l",".","o","r","g">>,
      <<"x","h","t","t","p",":","/","/","f","o","o",".","b","a","r",".","c","o","m">> }

EdgeRequests ==
    { Request(m, <<o>>, <<>>, <<>>) : m \in {MethodGet, MethodPut}, o \in EdgeRequestOrigins }
    \cup { Request(MethodOptions, <<o>>, rm, <<>>) :
            o \in EdgeRequestOrigins, rm \in { <<>>, <<MethodGet>>, <<MethodPut>> } }

\* the requests a middleware built from cfg is sent
RequestsFor(cfg) == IF cfg \in EdgeConfigs THEN EdgeRequests ELSE Requests

NoRequest ==
    [Method |-> <<>>, Header |-> [n \in RequestHeaderNames |-> <<>>]]

NoHeaders == [n \in ResponseHeaderNames |-> <<>>]

\* the zero value of the cors struct, held before initialize has run
NoPolicy ==
    [ allowedRegexOrigins |-> <<>>, allowedStaticOrigins |-> <<>>,
      allowedSuffixOrigins |-> <<>>, allowedMethods |-> {}, allowedHeaders |-> {},
      allowedHeadersString |-> <<>>, allowedMethodsString |-> <<>>, maxAge |-> <<>>,
      exposedHeaders |-> <<>>, exposeHeader |-> FALSE, allowAllOrigins |-> FALSE,
      allowAllHeaders |-> FALSE, allowCredentials |-> FALSE, forwardRequest |-> FALSE ]

-----------------------------------------------------------------------------------------------------------------------------------------------------------------------------------------------------------------------------
(* The filter closure.  q is the state of one invocation: where it ended     *)
(* ("run" while it has not), the response headers, the status written, the   *)
(* calls of next made, and the log of its queries and effects, in order.     *)
(* The blocks of the closure's body are defined last to first, each handing  *)
(* q to the block that follows it in the code.                               *)

Terminal == {"done", "fault"}

Entered(h) == [pc |-> "run", hdr |-> h, status |-> 0, nextCalls |-> 0, log |-> <<>>]

\* w.Header().Set(name, value) in the place of Add: earlier values are dropped
setHeader(q, name, value) ==
    [q EXCEPT !.hdr = [@ EXCEPT ![name] = <<value>>],
              !.log = Append(@, [op |-> "Add", name |-> name])]

\* w.Header().Add(name, value)
addHeader(q, name, value) ==
    [q EXCEPT !.hdr = Add(@, name, value),
              !.log = Append(@, [op |-> "Add", name |-> name])]

\* w.WriteHeader(code); return
writeHeader(q, code) ==
    [q EXCEPT !.status = code, !.pc = "done",
              !.log = Append(@, [op |-> "WriteHeader", name |-> ""])]

\* next.ServeHTTP(w, r); return
serveNext(q) ==
    [q EXCEPT !.nextCalls = @ + 1, !.pc = "done",
              !.log = Append(@, [op |-> "next", name |-> ""])]

\* a call of one of the policy's matchers
query(q, matcher) == [q EXCEPT !.log = Append(@, [op |-> "query", name |-> matcher])]

\* a runtime fault unwinds the closure
fault(q) == [q EXCEPT !.pc = "fault"]

\* the preflight forwarded and then answered with 200 as well
finishBoth(p, r, q) ==
    IF p.forwardRequest THEN writeHeader(serveNext(q), StatusOK) ELSE writeHeader(q, StatusOK)

\* forward the preflight if required, else end the chain with 200
finish(p, r, q) ==
    IF p.forwardRequest THEN serveNext(q) ELSE writeHeader(q, StatusOK)

\* the headers of an accepted preflight, with the policy's own header string
\* sent under every header policy
preflightHeadersOwnList(p, r, q) ==
    LET q1 == addHeader(q, AccessControlAllowMethods, p.allowedMethodsString)
        q2 == addHeader(q1, AccessControlAllowHeaders, p.allowedHeadersString)
        q3 == IF p.allowCredentials
              THEN addHeader(q2, AccessControlAllowCredentials, "true") ELSE q2
        q4 == IF p.maxAge # <<"0">>
              THEN addHeader(q3, AccessControlControlMaxAge, p.maxAge) ELSE q3
    IN  finish(p, r, q4)

\* the headers of an accepted preflight, built from what the client asked for
\* under every policy
preflightHeadersRequested(p, r, q) ==
    LET q1 == addHeader(q, AccessControlAllowMethods,
                        Get(r.Header, AccessControlRequestMethod))
        q2 == addHeader(q1, AccessControlAllowHeaders,
                        Get(r.Header, AccessControlRequestHeaders))
        q3 == IF p.allowCredentials
              THEN addHeader(q2, AccessControlAllowCredentials, "true") ELSE q2
        q4 == IF p.maxAge # <<"0">>
              THEN addHeader(q3, AccessControlControlMaxAge, p.maxAge) ELSE q3
    IN  finish(p, r, q4)

\* the headers of an accepted preflight
preflightHeaders(p, r, q) ==
    LET q1 == addHeader(q, AccessControlAllowMethods, p.allowedMethodsString)
        q2 == IF p.allowAllHeaders
              THEN addHeader(q1, AccessControlAllowHeaders,
                             Get(r.Header, AccessControlRequestHeaders))
              ELSE addHeader(q1, AccessControlAllowHeaders, p.allowedHeadersString)
        q3 == IF p.allowCredentials
              THEN addHeader(q2, AccessControlAllowCredentials, "true") ELSE q2
        q4 == IF p.maxAge # <<"0">>
              THEN addHeader(q3, AccessControlControlMaxAge, p.maxAge) ELSE q3
    IN  finish(p, r, q4)

checkReqHeaders(p, r, q) ==
    LET ok == areReqHeadersAllowed(p, Get(r.Header, AccessControlRequestHeaders))
        q1 == query(q, "areReqHeadersAllowed")
    IN  IF ok.fault THEN fault(q1)
        ELSE IF ~ok.val THEN writeHeader(q1, StatusForbidden)
        ELSE preflightHeaders(p, r, q1)

checkReqMethod(p, r, q) ==
    LET acReqMethod == Get(r.Header, AccessControlRequestMethod)
        q1 == query(q, "isMethodAllowed")
    IN  IF ~isMethodAllowed(p, acReqMethod)
        THEN writeHeader(q1, StatusMethodNotAllowed)
        ELSE checkReqHeaders(p, r, q1)

\* the preflight request
preflight(p, r, q) == checkReqMethod(p, r, addHeader(q, VaryHeader, VaryPreflight))

\* the simple cross-origin request, with Access-Control-Expose-Headers added
\* whether or not any header is exposed
simpleExposeAlways(p, r, q) ==
    LET q1 == addHeader(q, AccessControlExposeHeaders, p.exposedHeaders)
        q2 == IF p.allowCredentials
              THEN addHeader(q1, AccessControlAllowCredentials, "true") ELSE q1
    IN  serveNext(q2)

\* the simple cross-origin request
simple(p, r, q) ==
    LET q1 == IF p.exposeHeader
              THEN addHeader(q, AccessControlExposeHeaders, p.exposedHeaders) ELSE q
        q2 == IF p.allowCredentials
              THEN addHeader(q1, AccessControlAllowCredentials, "true") ELSE q1
    IN  serveNext(q2)

\* "*" sent as the allowed origin when every origin is allowed
allowOriginStar(p, r, q) ==
    LET q1 == addHeader(q, AccessControlAllowOrigin,
                        IF p.allowAllOrigins THEN Star ELSE Get(r.Header, OriginHeader))
    IN  IF r.Method # MethodOptions THEN simple(p, r, q1) ELSE preflight(p, r, q1)

\* origin and method are allowed
allowOrigin(p, r, q) ==
    LET q1 == addHeader(q, AccessControlAllowOrigin, Get(r.Header, OriginHeader))
    IN  IF r.Method # MethodOptions THEN simple(p, r, q1) ELSE preflight(p, r, q1)

\* Access-Control-Allow-Origin added before the actual method is checked
checkMethodAllowOriginFirst(p, r, q) ==
    LET q1 == query(addHeader(q, AccessControlAllowOrigin, Get(r.Header, OriginHeader)),
                    "isMethodAllowed")
    IN  IF ~isMethodAllowed(p, r.Method)
        THEN writeHeader(q1, StatusMethodNotAllowed)
        ELSE IF r.Method # MethodOptions THEN simple(p, r, q1) ELSE preflight(p, r, q1)

\* the actual method checked for non-preflight requests only
checkMethodSkipOptions(p, r, q) ==
    LET q1 == query(q, "isMethodAllowed")
    IN  IF r.Method = MethodOptions THEN allowOrigin(p, r, q)
        ELSE IF ~isMethodAllowed(p, r.Method)
        THEN writeHeader(q1, StatusMethodNotAllowed)
        ELSE allowOrigin(p, r, q1)

checkMethod(p, r, q) ==
    LET q1 == query(q, "isMethodAllowed")
    IN  IF ~isMethodAllowed(p, r.Method)
        THEN writeHeader(q1, StatusMethodNotAllowed)
        ELSE allowOrigin(p, r, q1)

\* Access-Control-Allow-Origin added before the origin is checked
checkOriginLate(p, r, q) ==
    LET q1 == query(addHeader(q, AccessControlAllowOrigin, Get(r.Header, OriginHeader)),
                    "isOriginAllowed")
    IN  IF ~isOriginAllowed(p, Get(r.Header, OriginHeader))
        THEN writeHeader(q1, StatusForbidden)
        ELSE checkMethod(p, r, q)

checkOrigin(p, r, q) ==
    LET q1 == query(q, "isOriginAllowed")
    IN  IF ~isOriginAllowed(p, Get(r.Header, OriginHeader))
        THEN writeHeader(q1, StatusForbidden)
        ELSE checkMethod(p, r, q1)

\* Vary: Origin added before the Origin header is looked at
filterVaryFirst(p, r, q) ==
    IF Get(r.Header, OriginHeader) = <<>>
    THEN serveNext(addHeader(q, VaryHeader, OriginHeader))
    ELSE checkOrigin(p, r, addHeader(q, VaryHeader, OriginHeader))

\* the closure from its entry: same-origin requests are forwarded; any other
\* gets Vary: Origin and goes through the checks
filter(p, r, q) ==
    IF Get(r.Header, OriginHeader) = <<>>
    THEN serveNext(q)
    ELSE checkOrigin(p, r, addHeader(q, VaryHeader, OriginHeader))

-----
(* The closure one block at a time, as a goroutine runs it while others run *)
(* theirs: at names the block the goroutine is about to execute.            *)

goto(at, q) == [at |-> at, q |-> q]

\* the closure has returned, or a fault has unwound it
ended(q) == [at |-> "end", q |-> q]

\* the block at `at` executed against the policy p as it is at that moment
step(p, r, at, q) ==
    CASE at = "origin" ->
            IF Get(r.Header, OriginHeader) = <<>>
            THEN ended(serveNext(q))
            ELSE goto("checkOrigin", addHeader(q, VaryHeader, OriginHeader))
      [] at = "checkOrigin" ->
            IF ~isOriginAllowed(p, Get(r.Header, OriginHeader))
            THEN ended(writeHeader(query(q, "isOriginAllowed"), StatusForbidden))
            ELSE goto("checkMethod", query(q, "isOriginAllowed"))
      [] at = "checkMethod" ->
            IF ~isMethodAllowed(p, r.Method)
            THEN ended(writeHeader(query(q, "isMethodAllowed"), StatusMethodNotAllowed))
            ELSE goto("allowOrigin", query(q, "isMethodAllowed"))
      [] at = "allowOrigin" ->
            goto(IF r.Method # MethodOptions THEN "simple" ELSE "preflight",
                 addHeader(q, AccessControlAllowOrigin, Get(r.Header, OriginHeader)))
      [] at = "simple" -> ended(simple(p, r, q))
      [] at = "preflight" ->
            goto("checkReqMethod", addHeader(q, VaryHeader, VaryPreflight))
      [] at = "checkReqMethod" ->
            IF ~isMethodAllowed(p, Get(r.Header, AccessControlRequestMethod))
            THEN ended(writeHeader(query(q, "isMethodAllowed"), StatusMethodNotAllowed))
            ELSE goto("checkReqHeaders", query(q, "isMethodAllowed"))
      [] at = "checkReqHeaders" ->
            LET ok == areReqHeadersAllowed(p, Get(r.Header, AccessControlRequestHeaders))
                q1 == query(q, "areReqHeadersAllowed")
            IN  IF ok.fault THEN ended(fault(q1))
                ELSE IF ~ok.val THEN ended(writeHeader(q1, StatusForbidden))
                ELSE goto("preflightHeaders", q1)
      [] at = "preflightHeaders" -> ended(preflightHeaders(p, r, q))

\* the policy with the headers a request asks for added to its allow-set
policyLearning(p, r, at) ==
    IF at = "checkReqMethod"
    THEN [p EXCEPT !.allowedHeaders =
            @ \cup {toLowerCase(Get(r.Header, AccessControlRequestHeaders))}]
    ELSE p

\* the policy after the block at `at` has run for r: no block of the closure
\* assigns a field of c or changes a slice or map it holds
policyAfter(p, r, at) == p

-----
(* The middleware: built once, then serving requests *)

\* no function of the package has been called directly
NoCall == [fn |-> "", arg |-> <<>>, ret |-> Ok(<<>>)]

\* the handlers the server may run at the same time
Handlers == 1..NumHandlers

\* no request is in flight
NoHandlers == [i \in Handlers |-> [at |-> "idle"]]

Init ==
    /\ config \in Configs
    /\ c = NoPolicy
    /\ pc = "init"
    /\ req = NoRequest
    /\ hdr0 = NoHeaders
    /\ hdr = NoHeaders
    /\ status = 0
    /\ nextCalls = 0
    /\ log = <<>>
    /\ call = NoCall
    /\ handlers = NoHandlers

\* Filter(config): c := initialize(config), once
Setup ==
    /\ pc = "init"
    /\ LET r == initialize(config) IN
         IF r.fault
         THEN pc' = "failed" /\ c' = c
         ELSE pc' = "idle" /\ c' = r.val
    /\ UNCHANGED <<config, req, hdr0, hdr, status, nextCalls, log, call, handlers>>

\* the host server calls the filter with a request and a response writer
Serve ==
    /\ pc = "idle"
    /\ \E r \in RequestsFor(config), v \in PreVary :
         LET h == [NoHeaders EXCEPT ![VaryHeader] = v]
             q == filter(c, r, Entered(h))
         IN  /\ req' = r
             /\ hdr0' = h
             /\ hdr' = q.hdr
             /\ status' = q.status
             /\ nextCalls' = q.nextCalls
             /\ log' = q.log
             /\ pc' = q.pc
    /\ UNCHANGED <<config, c, call, handlers>>

\* the response is on its way (or the server has recovered the fault); the
\* same policy serves the next request
Return ==
    /\ pc \in Terminal
    /\ pc' = "idle"
    /\ req' = NoRequest
    /\ hdr0' = NoHeaders
    /\ hdr' = NoHeaders
    /\ status' = 0
    /\ nextCalls' = 0
    /\ log' = <<>>
    /\ UNCHANGED <<config, c, call, handlers>>

Next ==
    \/ Setup
    \/ Serve
    \/ Return

Spec == Init /\ [][Next]_vars

\* the same middleware built from a configuration whose lists are irregular
InitEdge ==
    /\ config \in EdgeConfigs
    /\ c = NoPolicy
    /\ pc = "init"
    /\ req = NoRequest
    /\ hdr0 = NoHeaders
    /\ hdr = NoHeaders
    /\ status = 0
    /\ nextCalls = 0
    /\ log = <<>>
    /\ call = NoCall
    /\ handlers = NoHandlers

SpecEdge == InitEdge /\ [][Next]_vars

-----------------------------------------------------------------------------
(* The header-list functions called on their own, as the package's tests   *)
(* call them                                                               *)

\* the bytes the inputs are made of: the separator, the space, a lowercase
\* and an uppercase letter, another punctuation mark and another blank
Bytes == {",", " ", "a", "B", ";", "\t"}

\* every string of at most MaxLen of these bytes, and inputs of
\* TestNormalizeHeader and TestTrim
ListInputs ==
    UNION {[1..n -> Bytes] : n \in 0..MaxLen}
    \cup { <<"F","o","O",",","B","a","r",","," ">>,
           <<"F","o","O",","," ","B","a","r",","," ","f","o","o",";","B","a","r">>,
           <<" "," "," "," "," "," "," ">>,
           <<" "," "," "," ","f","o","o"," ","b","a","r"," "," "," "," "," ">> }

InitLists ==
    /\ config \in [ AllowedOrigins : {<<>>}, AllowedMethods : {<<>>}, AllowedHeaders : {<<>>},
                    ExposedHeaders : {<<>>}, MaxAge : {0}, AllowCredentials : {FALSE},
                    ForwardRequest : {FALSE} ]
    /\ c = NoPolicy
    /\ pc = "init"
    /\ req = NoRequest
    /\ hdr0 = NoHeaders
    /\ hdr = NoHeaders
    /\ status = 0
    /\ nextCalls = 0
    /\ log = <<>>
    /\ call = NoCall
    /\ handlers = NoHandlers

\* trimSpace([]byte(s))
CallTrimSpace ==
    /\ call.fn = ""
    /\ \E s \in ListInputs : call' = [fn |-> "trimSpace", arg |-> s, ret |-> trimSpace(s)]
    /\ UNCHANGED <<config, c, pc, req, hdr0, hdr, status, nextCalls, log, handlers>>

\* normalizeHeaders(s)
CallNormalizeHeaders ==
    /\ call.fn = ""
    /\ \E s \in ListInputs :
         call' = [fn |-> "normalizeHeaders", arg |-> s, ret |-> normalizeHeaders(s)]
    /\ UNCHANGED <<config, c, pc, req, hdr0, hdr, status, nextCalls, log, handlers>>

\* the call has returned, or the test has recovered its fault
ReturnCall ==
    /\ call.fn # ""
    /\ call' = NoCall
    /\ UNCHANGED <<config, c, pc, req, hdr0, hdr, status, nextCalls, log, handlers>>

NextLists ==
    \/ CallTrimSpace
    \/ CallNormalizeHeaders
    \/ ReturnCall

SpecLists == InitLists /\ [][NextLists]_vars

-----------------------------------------------------------------------------
(* The middleware serving several requests at once: net/http runs the      *)
(* handler of each connection in a goroutine of its own, and all of them   *)
(* share the one *cors the closure has captured                            *)

ConcConfigs ==
    [ AllowedOrigins   : { <<"h","t","t","p",":","/","/","f","o","o","b","a","r",".","c","o","m">> },
      AllowedMethods   : { <<>> },
      AllowedHeaders   : { <<"X","-","A",",","X","-","b">> },
      ExposedHeaders   : { <<"X","-","A">> },
      MaxAge           : { 0 },
      AllowCredentials : { TRUE },
      ForwardRequest   : BOOLEAN ]

ConcRequests ==
    { Request(MethodGet, <<>>, <<>>, <<>>),
      Request(MethodGet, <<<<"h","t","t","p",":","/","/","f","o","o","b","a","r",".","c","o","m">>>>, <<>>, <<>>),
      Request(MethodOptions, <<<<"h","t","t","p",":","/","/","f","o","o",".","b","a","r",".","c","o","m">>>>,
              <<MethodGet>>, <<>>),
      Request(MethodOptions, <<<<"h","t","t","p",":","/","/","f","o","o","b","a","r",".","c","o","m">>>>,
              <<MethodGet>>, <<<<"X","-","B",","," ","X","-","A">>>>),
      Request(MethodOptions, <<<<"h","t","t","p",":","/","/","f","o","o","b","a","r",".","c","o","m">>>>,
              <<MethodGet>>, <<<<"o","r","i","g","i","n">>>>),
      Request(MethodOptions, <<<<"h","t","t","p",":","/","/","f","o","o","b","a","r",".","c","o","m">>>>,
              <<MethodGet>>, <<<<"X","-","A",","," "," ">>>>) }

InitConc ==
    /\ config \in ConcConfigs
    /\ c = NoPolicy
    /\ pc = "init"
    /\ req = NoRequest
    /\ hdr0 = NoHeaders
    /\ hdr = NoHeaders
    /\ status = 0
    /\ nextCalls = 0
    /\ log = <<>>
    /\ call = NoCall
    /\ handlers = NoHandlers

\* the server hands a request to a handler that is free
Accept ==
    /\ pc = "idle"
    /\ \E i \in Handlers, r \in ConcRequests :
         /\ handlers[i].at = "idle"
         /\ handlers' = [handlers EXCEPT ![i] =
                            [at |-> "origin", r |-> r, q |-> Entered(NoHeaders)]]
    /\ UNCHANGED <<config, c, pc, req, hdr0, hdr, status, nextCalls, log, call>>

\* one handler executes its next block
Step ==
    /\ \E i \in Handlers :
         /\ handlers[i].at \notin {"idle", "end"}
         /\ LET h == handlers[i]
                s == step(c, h.r, h.at, h.q)
            IN  /\ handlers' = [handlers EXCEPT ![i] = [at |-> s.at, r |-> h.r, q |-> s.q]]
                /\ c' = policyAfter(c, h.r, h.at)
    /\ UNCHANGED <<config, pc, req, hdr0, hdr, status, nextCalls, log, call>>

\* the response of a handler that has ended is on its way
Finish ==
    /\ \E i \in Handlers :
         /\ handlers[i].at = "end"
         /\ handlers' = [handlers EXCEPT ![i] = [at |-> "idle"]]
    /\ UNCHANGED <<config, c, pc, req, hdr0, hdr, status, nextCalls, log, call>>

NextConc ==
    \/ Setup
    \/ Accept
    \/ Step
    \/ Finish

SpecConc == InitConc /\ [][NextConc]_vars

-----------------------------------------------------------------------------
(* Properties of the filter *)

\* the Origin header value the filter read from the request just handled
ReqOrigin == Get(req.Header, OriginHeader)

ReqMethod == Get(req.Header, AccessControlRequestMethod)

ReqHeaders == Get(req.Header, AccessControlRequestHeaders)

\* the filter has been run on req, to its return or to a fault
Handled == pc \in Terminal

CrossOrigin == Handled /\ ReqOrigin # <<>>

OriginAccepted == CrossOrigin /\ isOriginAllowed(c, ReqOrigin)

Http(s) == <<"h","t","t","p",":","/","/">> \o s

\* C1: a request whose Origin header is absent or empty, whatever its method
\* and other headers, is handed to the next handler exactly once; no response
\* header is added, no status is written and no matcher of the policy is queried.
C1_NoOriginForwarded ==
    (Handled /\ ReqOrigin = <<>>) =>
        /\ pc = "done"
        /\ nextCalls = 1
        /\ status = 0
        /\ hdr = hdr0
        /\ log = <<[op |-> "next", name |-> ""]>>

C1_Witness ==
    /\ pc = "done"
    /\ req.Header[OriginHeader] = << <<>> >>
    /\ req.Method = MethodOptions
    /\ req.Header[AccessControlRequestMethod] # <<>>
    /\ ~c.allowAllOrigins
    /\ nextCalls = 1

\* C2: whenever the response carries Access-Control-Allow-Origin, it carries it
\* once and its value is the request's Origin value, byte for byte.
C2_AllowOriginIsRequestOrigin ==
    Handled => hdr[AccessControlAllowOrigin] \in {<<>>, <<ReqOrigin>>}

C2_Witness ==
    /\ pc = "done"
    /\ config.AllowedOrigins = Star
    /\ hdr[AccessControlAllowOrigin] = <<Http(<<"f","o","o","b","a","r",".","c","o","m">>)>>

\* C3: the compiled policy never has allowAllOrigins and allowCredentials both
\* true; with AllowCredentials set and AllowedOrigins empty or "*" the compiled
\* allowCredentials is false and no response carries
\* Access-Control-Allow-Credentials.
C3_NoCredentialsWithAllowAll ==
    /\ ~(c.allowAllOrigins /\ c.allowCredentials)
    /\ (config.AllowCredentials /\ config.AllowedOrigins \in {<<>>, Star}) =>
           /\ ~c.allowCredentials
           /\ hdr[AccessControlAllowCredentials] = <<>>

C3_Witness ==
    /\ pc = "done"
    /\ config.AllowCredentials
    /\ config.AllowedOrigins = Star
    /\ req.Method = MethodOptions
    /\ status = StatusOK
    /\ hdr[AccessControlAllowMethods] # <<>>

\* C4: a request with a non-empty Origin that the origin matcher does not
\* accept gets status 403, the next handler is not invoked, and Vary: Origin
\* is the only header the filter has added.
C4_RejectedOrigin ==
    (CrossOrigin /\ ~isOriginAllowed(c, ReqOrigin)) =>
        /\ pc = "done"
        /\ status = StatusForbidden
        /\ nextCalls = 0
        /\ hdr = Add(hdr0, VaryHeader, OriginHeader)

C4_Witness ==
    /\ pc = "done"
    /\ req.Method = MethodOptions
    /\ ReqOrigin # <<>>
    /\ ~isOriginAllowed(c, ReqOrigin)
    /\ status = StatusForbidden

\* C5: every response rejected with 403 or 405 carries no
\* Access-Control-Allow-Origin header.
C5_RejectedHasNoAllowOrigin ==
    (pc = "done" /\ status \in {StatusForbidden, StatusMethodNotAllowed}) =>
        hdr[AccessControlAllowOrigin] = <<>>

\* C6: under AllowedOrigins "*.example.com", http://foo.example.com is accepted
\* and http://fooexample.com is rejected with 403.
C6_SuffixAtSubdomainBoundary ==
    (pc = "done" /\ config.AllowedOrigins = <<"*",".">> \o <<"e","x","a","m","p","l","e",".","c","o","m">>) =>
        /\ ReqOrigin = Http(<<"f","o","o",".","e","x","a","m","p","l","e",".","c","o","m">>)
              => status # StatusForbidden
        /\ ReqOrigin = Http(<<"f","o","o","e","x","a","m","p","l","e",".","c","o","m">>)
              => status = StatusForbidden

\* a preflight's Access-Control-Request-Headers pass the header check
ReqHeadersAccepted ==
    /\ ~areReqHeadersAllowed(c, ReqHeaders).fault
    /\ areReqHeadersAllowed(c, ReqHeaders).val

\* C7 as claimed: an OPTIONS request with an accepted Origin whose requested
\* method and headers are allowed is accepted and receives
\* Access-Control-Allow-Methods, OPTIONS being in the allow-set or not.
C7_OptionsNotChecked ==
    (OriginAccepted /\ req.Method = MethodOptions
        /\ isMethodAllowed(c, ReqMethod) /\ ReqHeadersAccepted) =>
        /\ status # StatusMethodNotAllowed
        /\ hdr[AccessControlAllowMethods] # <<>>

\* C7 amended: for an OPTIONS request with an accepted Origin the actual method
\* OPTIONS is checked against the method allow-set, and then the requested
\* method is: the response carries Access-Control-Allow-Methods (the configured
\* string) exactly when OPTIONS and the requested method are both in the
\* allow-set and the requested headers pass; when OPTIONS is not in the
\* allow-set the only method query made is the one on OPTIONS.
C7_OptionsCheckedFirst ==
    (OriginAccepted /\ req.Method = MethodOptions) =>
        /\ hdr[AccessControlAllowMethods] # <<>> <=>
              /\ isMethodAllowed(c, MethodOptions)
              /\ isMethodAllowed(c, ReqMethod)
              /\ ReqHeadersAccepted
        /\ hdr[AccessControlAllowMethods] \in {<<>>, <<c.allowedMethodsString>>}
        /\ ~isMethodAllowed(c, MethodOptions) =>
              Cardinality({i \in 1..Len(log) : log[i].name = "isMethodAllowed"}) = 1

C7_Witness ==
    /\ pc = "done"
    /\ req.Method = MethodOptions
    /\ config.AllowedMethods = <<"P","U","T",",","D","E","L","E","T","E",",">> \o MethodOptions
    /\ ReqMethod = <<"P","U","T">>
    /\ hdr[AccessControlAllowMethods] = <<config.AllowedMethods>>

\* C8: when OPTIONS is not in the method allow-set, every OPTIONS request with
\* an accepted Origin is rejected with 405 whatever method it requests; the
\* next handler is not invoked and neither Access-Control-Allow-Methods nor
\* Access-Control-Allow-Headers is emitted.
C8_NoPreflightWithoutOptions ==
    (OriginAccepted /\ req.Method = MethodOptions /\ MethodOptions \notin c.allowedMethods) =>
        /\ pc = "done"
        /\ status = StatusMethodNotAllowed
        /\ nextCalls = 0
        /\ hdr[AccessControlAllowMethods] = <<>>
        /\ hdr[AccessControlAllowHeaders] = <<>>

C8_Witness ==
    /\ pc = "done"
    /\ req.Method = MethodOptions
    /\ config.AllowedMethods = <<"P","U","T",",","D","E","L","E","T","E">>
    /\ ReqMethod = <<"P","U","T">>
    /\ OriginAccepted
    /\ status = StatusMethodNotAllowed

\* C9: a preflight whose requested method is in the allow-set once uppercased
\* is not rejected with 405.
C9_RequestedMethodUppercased ==
    (OriginAccepted /\ req.Method = MethodOptions /\ isMethodAllowed(c, MethodOptions)
        /\ isMethodAllowed(c, ToUpper(ReqMethod))) =>
        status # StatusMethodNotAllowed

\* C10: for every request with a non-empty Origin the first thing the filter
\* does is to append Origin to Vary, and the origin decision comes next; in
\* every outcome Vary holds the values it held before, then Origin.
C10_VaryOriginFirst ==
    CrossOrigin =>
        /\ Len(log) >= 2
        /\ log[1] = [op |-> "Add", name |-> VaryHeader]
        /\ log[2] = [op |-> "query", name |-> "isOriginAllowed"]
        /\ Len(hdr[VaryHeader]) > Len(hdr0[VaryHeader])
        /\ SubSeq(hdr[VaryHeader], 1, Len(hdr0[VaryHeader]) + 1)
              = Append(hdr0[VaryHeader], OriginHeader)

C10_Witness ==
    /\ pc = "done"
    /\ req.Method = MethodOptions
    /\ hdr0[VaryHeader] = <<"Accept-Encoding">>
    /\ hdr[VaryHeader] = <<"Accept-Encoding", OriginHeader, VaryPreflight>>
    /\ nextCalls = 1

\* an OPTIONS request that has passed the origin check and the check of the
\* actual method
PreflightEntered ==
    OriginAccepted /\ req.Method = MethodOptions /\ isMethodAllowed(c, MethodOptions)

\* C11: a preflight that has passed the origin and actual-method checks and
\* whose Access-Control-Request-Method is absent, or is not in the method
\* allow-set, gets 405; the next handler is not invoked; the response has no
\* Access-Control-Allow-Methods, -Allow-Headers, -Max-Age or -Allow-Credentials
\* and its Vary holds Origin, then the two Access-Control-Request-* names.
C11_RequestedMethodRequired ==
    (PreflightEntered
        /\ (req.Header[AccessControlRequestMethod] = <<>> \/ ~isMethodAllowed(c, ReqMethod))) =>
        /\ pc = "done"
        /\ status = StatusMethodNotAllowed
        /\ nextCalls = 0
        /\ hdr[AccessControlAllowMethods] = <<>>
        /\ hdr[AccessControlAllowHeaders] = <<>>
        /\ hdr[AccessControlControlMaxAge] = <<>>
        /\ hdr[AccessControlAllowCredentials] = <<>>
        /\ hdr[VaryHeader] = hdr0[VaryHeader] \o <<OriginHeader, VaryPreflight>>

\* s without the spaces at its two ends
RECURSIVE StripSpaces(_)
StripSpaces(s) ==
    IF s # <<>> /\ s[1] = " " THEN StripSpaces(Tail(s))
    ELSE IF s # <<>> /\ s[Len(s)] = " " THEN StripSpaces(SubSeq(s, 1, Len(s) - 1))
    ELSE s

\* the tokens of a comma-separated list: each element stripped of surrounding
\* spaces and lowercased, the empty ones left out
ListTokens(s) ==
    {toLowerCase(StripSpaces(Split(s)[i])) : i \in 1..Len(Split(s))} \ {<<>>}

\* the header list a configuration allows
ConfiguredHeaders ==
    IF config.AllowedHeaders = <<>> THEN DefaultAllowedHeaders ELSE config.AllowedHeaders

\* a preflight that has passed the origin check and both method checks
PreflightMethodsPassed == PreflightEntered /\ isMethodAllowed(c, ReqMethod)

\* C12: under a header policy other than "*", a preflight that has passed the
\* origin and method checks is accepted exactly when every token of its
\* Access-Control-Request-Headers is a token of the allowed header list (an
\* absent or empty header has no token); otherwise it gets 403 and the next
\* handler is not invoked.
C12_HeadersAcceptedIff ==
    (PreflightMethodsPassed /\ config.AllowedHeaders # Star) =>
        /\ pc = "done"
        /\ IF ListTokens(ReqHeaders) \subseteq ListTokens(ConfiguredHeaders)
           THEN /\ status \in {0, StatusOK}
                /\ hdr[AccessControlAllowMethods] # <<>>
           ELSE /\ status = StatusForbidden
                /\ nextCalls = 0

\* the request was accepted: forwarded, or answered with 200
Accepted ==
    /\ pc = "done"
    /\ \/ (status = StatusOK /\ nextCalls = 0)
       \/ (status = 0 /\ nextCalls = 1)

\* C13: with AllowedHeaders "*", every preflight that has passed the origin
\* and method checks is accepted, and its Access-Control-Allow-Headers is
\* the value of the request's Access-Control-Request-Headers, unchanged.
C13_WildcardHeadersEchoed ==
    (PreflightMethodsPassed /\ config.AllowedHeaders = Star) =>
        /\ Accepted
        /\ hdr[AccessControlAllowHeaders] = <<ReqHeaders>>

C13_Witness ==
    /\ pc = "done"
    /\ config.AllowedHeaders = Star
    /\ config.AllowedMethods = <<>>
    /\ req.Method = MethodOptions
    /\ status = StatusOK
    /\ ReqHeaders = <<"X","-","B",","," ","X","-","A">>
    /\ hdr[AccessControlAllowHeaders] = << <<"X","-","B",","," ","X","-","A">> >>

\* a preflight that passed every check
PreflightAccepted == CrossOrigin /\ req.Method = MethodOptions /\ Accepted

\* the method list a configuration allows
ConfiguredMethods ==
    IF config.AllowedMethods = <<>> THEN DefaultAllowedMethods ELSE config.AllowedMethods

\* C14: an accepted preflight carries Access-Control-Allow-Methods with the
\* configured AllowedMethods string (the default list when unset) and, under a
\* header policy other than "*", Access-Control-Allow-Headers with the
\* configured AllowedHeaders string (the default list when unset), whatever
\* the client requested; it carries no Access-Control-Expose-Headers.
C14_ConfiguredListsVerbatim ==
    PreflightAccepted =>
        /\ hdr[AccessControlAllowMethods] = <<ConfiguredMethods>>
        /\ config.AllowedHeaders # Star =>
              hdr[AccessControlAllowHeaders] = <<ConfiguredHeaders>>
        /\ hdr[AccessControlExposeHeaders] = <<>>

C14_Witness ==
    /\ PreflightAccepted
    /\ config.AllowedMethods = <<"P","U","T",",","D","E","L","E","T","E",",","O","P","T","I","O","N","S">>
    /\ config.AllowedHeaders = <<"X","-","A",",","X","-","b">>
    /\ config.ExposedHeaders = <<"X","-","A">>
    /\ ReqMethod = <<"P","U","T">>
    /\ ReqHeaders = <<"X","-","B",","," ","X","-","A">>
    /\ hdr[AccessControlAllowHeaders] = << <<"X","-","A",",","X","-","b">> >>

\* C15: with MaxAge configured as 0, no accepted preflight carries
\* Access-Control-Max-Age.
C15_ZeroMaxAgeSuppressed ==
    (PreflightAccepted /\ config.MaxAge = 0) => hdr[AccessControlControlMaxAge] = <<>>

\* the number a sequence of decimal digits denotes
RECURSIVE DecimalValue(_)
DecimalValue(s) ==
    IF s = <<>> THEN 0
    ELSE 10 * DecimalValue(SubSeq(s, 1, Len(s) - 1)) + (IndexIn(Digits, s[Len(s)]) - 1)

LastOp == log[Len(log)].op

\* the filter added the named response header before its last step
AddedBeforeLast(name) ==
    \E i \in 1..(Len(log) - 1) : log[i] = [op |-> "Add", name |-> name]

\* C17: a preflight that has passed every check is answered with 200 and not
\* forwarded when ForwardRequest is false, and is forwarded exactly once with
\* no status written by the filter when ForwardRequest is true; in both cases
\* the preflight response headers were added before that last step.
C17_ForwardOrAnswer ==
    (PreflightMethodsPassed /\ ReqHeadersAccepted) =>
        /\ pc = "done"
        /\ IF config.ForwardRequest
           THEN status = 0 /\ nextCalls = 1 /\ LastOp = "next"
           ELSE status = StatusOK /\ nextCalls = 0 /\ LastOp = "WriteHeader"
        /\ AddedBeforeLast(AccessControlAllowOrigin)
        /\ AddedBeforeLast(AccessControlAllowMethods)
        /\ AddedBeforeLast(AccessControlAllowHeaders)
        /\ \A i \in 1..(Len(log) - 1) : log[i].op \in {"Add", "query"}

C17_Witness ==
    /\ pc = "done"
    /\ req.Method = MethodOptions
    /\ config.ForwardRequest
    /\ nextCalls = 1
    /\ status = 0
    /\ hdr[AccessControlAllowMethods] = <<DefaultAllowedMethods>>

\* C18: a request other than OPTIONS with an accepted Origin and an allowed
\* method gets Access-Control-Allow-Origin, Access-Control-Expose-Headers
\* with the configured string exactly when ExposedHeaders is not empty,
\* Access-Control-Allow-Credentials: true exactly when the compiled policy
\* allows credentials, no Access-Control-Allow-Methods or -Allow-Headers, and
\* is then handed to the next handler exactly once.
C18_SimpleRequest ==
    (OriginAccepted /\ req.Method # MethodOptions /\ isMethodAllowed(c, req.Method)) =>
        /\ pc = "done"
        /\ hdr[AccessControlAllowOrigin] = <<ReqOrigin>>
        /\ hdr[AccessControlExposeHeaders] =
              IF config.ExposedHeaders # <<>> THEN <<config.ExposedHeaders>> ELSE <<>>
        /\ hdr[AccessControlAllowCredentials] =
              IF c.allowCredentials THEN <<"true">> ELSE <<>>
        /\ hdr[AccessControlAllowMethods] = <<>>
        /\ hdr[AccessControlAllowHeaders] = <<>>
        /\ hdr[AccessControlControlMaxAge] = <<>>
        /\ status = 0
        /\ nextCalls = 1
        /\ LastOp = "next"
        /\ \A i \in 1..(Len(log) - 1) : log[i].op \in {"Add", "query"}

C18_Witness ==
    /\ pc = "done"
    /\ req.Method = MethodDelete
    /\ config.ExposedHeaders = <<"X","-","A">>
    /\ c.allowCredentials
    /\ nextCalls = 1
    /\ hdr[AccessControlExposeHeaders] = << <<"X","-","A">> >>
    /\ hdr[AccessControlAllowCredentials] = <<"true">>

\* C19: a request other than OPTIONS with an accepted Origin whose method is
\* not in the method allow-set gets 405; the next handler is not invoked and
\* Vary: Origin is the only header the filter has added.
C19_ActualMethodRejected ==
    (OriginAccepted /\ req.Method # MethodOptions /\ ~isMethodAllowed(c, req.Method)) =>
        /\ pc = "done"
        /\ status = StatusMethodNotAllowed
        /\ nextCalls = 0
        /\ hdr = Add(hdr0, VaryHeader, OriginHeader)

C19_Witness ==
    /\ pc = "done"
    /\ config.AllowedMethods = <<>>
    /\ req.Method = MethodDelete
    /\ ReqOrigin # <<>>
    /\ status = StatusMethodNotAllowed
    /\ nextCalls = 0
    /\ hdr[AccessControlAllowOrigin] = <<>>

\* C20: building the policy never faults, and every request ends forwarded or
\* with one of the statuses 403, 405 and 200, never in a runtime fault.
C20_NeverFaults ==
    /\ pc # "failed"
    /\ Handled =>
          /\ pc = "done"
          /\ \/ (status = 0 /\ nextCalls = 1)
             \/ (status \in {StatusForbidden, StatusMethodNotAllowed, StatusOK}
                    /\ nextCalls = 0)

\* the policy has been built
Built == pc \notin {"init", "failed"}

\* the configured origin list accepts every origin: it is empty, or "*" is
\* one of its entries
ListsEveryOrigin ==
    \/ config.AllowedOrigins = <<>>
    \/ \E i \in 1..Len(Split(config.AllowedOrigins)) : Split(config.AllowedOrigins)[i] = Star

\* C21: whenever the configured origin list accepts every origin, also with
\* "*" as one entry of a longer list, AllowCredentials is forced off: the
\* policy does not allow credentials and no response carries
\* Access-Control-Allow-Credentials.
C21_CredentialsOffForEveryOrigin ==
    (Built /\ config.AllowCredentials /\ ListsEveryOrigin) =>
        /\ ~c.allowCredentials
        /\ hdr[AccessControlAllowCredentials] = <<>>

\* C22: once Filter(config) has returned, the policy stays the one initialize
\* built, whatever the handlers do; and a handler that has ended, whatever ran
\* between its blocks, has the status, response headers, next calls and log of
\* the closure run alone on its request.
C22_PolicyReadOnly ==
    Built =>
        /\ c = initialize(config).val
        /\ \A i \in Handlers :
              handlers[i].at = "end" =>
                 handlers[i].q = filter(c, handlers[i].r, Entered(NoHeaders))

C22_Witness ==
    /\ handlers[1].at = "end"
    /\ handlers[1].q.status = StatusOK
    /\ handlers[2].at = "checkReqHeaders"
    /\ handlers[2].r.Header[AccessControlRequestHeaders] = << <<"o","r","i","g","i","n">> >>

\* the sequence ss without its empty elements
RECURSIVE NonEmpty(_)
NonEmpty(ss) ==
    IF ss = <<>> THEN <<>>
    ELSE IF ss[1] = <<>> THEN NonEmpty(Tail(ss))
    ELSE <<ss[1]>> \o NonEmpty(Tail(ss))

\* the tokens of a comma-separated list in their order: each element stripped
\* of surrounding spaces and lowercased, the empty ones left out
TokenSeq(s) ==
    NonEmpty([i \in 1..Len(Split(s)) |-> toLowerCase(StripSpaces(Split(s)[i]))])

\* C23: for every input, normalizeHeaders returns the tokens of the list in
\* their order: split on ",", stripped of leading and trailing spaces,
\* A-Z lowercased, and every token that is empty after trimming left out.
C23_NormalizeHeadersTokens ==
    call.fn = "normalizeHeaders" =>
        /\ ~call.ret.fault
        /\ call.ret.val = TokenSeq(call.arg)

\* C24: for every byte sequence, trimSpace returns it without its leading and
\* trailing spaces and otherwise unchanged; an all-space input gives the
\* empty sequence.
C24_TrimSpaceStrips ==
    call.fn = "trimSpace" =>
        /\ ~call.ret.fault
        /\ call.ret.val = StripSpaces(call.arg)

\* the elements of ss joined with ","
RECURSIVE JoinComma(_)
JoinComma(ss) ==
    IF ss = <<>> THEN <<>>
    ELSE IF Len(ss) = 1 THEN ss[1]
    ELSE ss[1] \o <<",">> \o JoinComma(Tail(ss))

\* C25: normalizeHeaders is idempotent: what it returns, joined with "," and
\* normalised again, gives the same sequence of tokens.
C25_NormalizeHeadersIdempotent ==
    (call.fn = "normalizeHeaders" /\ ~call.ret.fault) =>
        normalizeHeaders(JoinComma(call.ret.val)) = Ok(call.ret.val)

\* C26: an origin entry with "?" is compiled as a pattern in which "?"
\* stands for one character, so AllowedOrigins "http://fo?.com" accepts
\* http://foo.com; no entry with "*" or "?" is kept for exact matching.
C26_QuestionMarkPattern ==
    /\ Built =>
          \A i \in 1..Len(c.allowedStaticOrigins) :
             Count(c.allowedStaticOrigins[i], "?") = 0 /\ Count(c.allowedStaticOrigins[i], "*") = 0
    /\ (Handled /\ config.AllowedOrigins = <<"h","t","t","p",":","/","/","f","o","?",".","c","o","m">>
           /\ ReqOrigin = <<"h","t","t","p",":","/","/","f","o","o",".","c","o","m">>) =>
          /\ status # StatusForbidden
          /\ hdr[AccessControlAllowOrigin] = <<ReqOrigin>>

\* C27: the entries of AllowedOrigins are trimmed before they are classified
\* and stored: under "http://a.com, http://b.com" and under
\* "http://a.com ,*.b.com" the origins http://a.com and http://b.com are
\* accepted.
C27_OriginEntriesTrimmed ==
    (Handled /\ config.AllowedOrigins \in { <<"h","t","t","p",":","/","/","a",".","c","o","m",","," ","h","t","t","p",":","/","/","b",".","c","o","m">>,
                                            <<"h","t","t","p",":","/","/","a",".","c","o","m"," ",",","*",".","b",".","c","o","m">> }
        /\ ReqOrigin \in { <<"h","t","t","p",":","/","/","a",".","c","o","m">>, <<"h","t","t","p",":","/","/","b",".","c","o","m">> }) =>
        /\ status # StatusForbidden
        /\ hdr[AccessControlAllowOrigin] = <<ReqOrigin>>

\* C28: the tokens of AllowedMethods are uppercased and stripped of
\* surrounding spaces: under "get, put,OPTIONS" the allow-set holds GET and
\* PUT and no token with a space at either end, and GET and PUT requests
\* from an accepted origin are not answered with 405.
C28_MethodTokensTrimmed ==
    (Built /\ config.AllowedMethods = <<"g","e","t",","," ","p","u","t",",","O","P","T","I","O","N","S">>) =>
        /\ MethodGet \in c.allowedMethods
        /\ MethodPut \in c.allowedMethods
        /\ \A m \in c.allowedMethods : m = StripSpaces(m)
        /\ (OriginAccepted /\ req.Method \in {MethodGet, MethodPut}) =>
              status # StatusMethodNotAllowed

\* C29: a wildcard pattern accepts an origin only if the whole origin matches
\* it: "http://foo.*.com" accepts http://foo.bar.com, and rejects with 403
\* http://foo.bar.com.evil.org and xhttp://foo.bar.com, which only contain a
\* match.
C29_WholeOriginMatches ==
    (Handled /\ config.AllowedOrigins = <<"h","t","t","p",":","/","/","f","o","o",".","*",".","c","o","m">>) =>
        /\ ReqOrigin = <<"h","t","t","p",":","/","/","f","o","o",".","b","a","r",".","c","o","m">> => status # StatusForbidden
        /\ ReqOrigin \in { <<"h","t","t","p",":","/","/","f","o","o",".","b","a","r",".","c","o","m",".","e","v","i","l",".","o","r","g">>,
                           <<"x","h","t","t","p",":","/","/","f","o","o",".","b","a","r",".","c","o","m">> } =>
              status = StatusForbidden /\ hdr[AccessControlAllowOrigin] = <<>>

\* the number of steps of the log that end the handling of a request
Terminals == Cardinality({i \in 1..Len(log) : log[i].op \in {"next", "WriteHeader"}})

\* C30: for every request the filter either invokes the next handler once
\* or writes one status, 403, 405 or 200, never both and never neither, and
\* this is the last thing it does: every header is added before it.
C30_OneTerminalAction ==
    Handled =>
        /\ pc = "done"
        /\ Terminals = 1
        /\ LastOp \in {"next", "WriteHeader"}
        /\ \/ (nextCalls = 1 /\ status = 0 /\ LastOp = "next")
           \/ (nextCalls = 0 /\ LastOp = "WriteHeader"
                  /\ status \in {StatusForbidden, StatusMethodNotAllowed, StatusOK})

=============================================================================
